---------------------------- MODULE Spec2Model ----------------------------
(***************************************************************************)
(* Model of the SportsLine analyzer (src/analyzer.py, src/app.py,          *)
(* src/schemas.py).                                                        *)
(*                                                                         *)
(* Values.  A Python value is a tagged record: None, I(n) an int, S(s) a   *)
(* str, and a float, which is an IEEE 754 binary64 number written in one   *)
(* of two notations:                                                       *)
(*   F(v)          decimal: the float nearest to v / 10^6, the float that  *)
(*                 Python reads from the decimal text, so F(600000) is     *)
(*                 0.6 and F(-150000000) is -150.0; NegZero is -0.0;       *)
(*   D(neg, m, e)  binary: (-1)^neg * m * 2^e, m the mantissa of 53 bits   *)
(*                 as four limbs of 14 bits, lowest first:                 *)
(*                 m = m[1] + m[2]*2^14 + m[3]*2^28 + m[4]*2^42;           *)
(*                 zero has no limbs.                                      *)
(* The floats of a request and the floats rounded to three places are      *)
(* written in decimal, every other computed float in binary.  Arithmetic   *)
(* is that of binary64: each operation gives the exact result rounded to   *)
(* the nearest float, ties to even.  Infinities, NaN and subnormal numbers *)
(* are outside the model.                                                  *)
(***************************************************************************)
EXTENDS Integers, Sequences, FiniteSets, TLC

VARIABLES
    payload,    \* the games of the request body, as the client sent them
    games,      \* batch.games, the validated games the handler holds
    endpoint,   \* which POST endpoint handled the request, "" before
    pc,         \* "received" | "responded" ("call" in the function specifications)
    response,   \* the HTTP response
    fn,         \* function specifications: the function called
    args,       \* its arguments
    ret         \* its result, Pending before the call

vars == <<payload, games, endpoint, pc, response, fn, args, ret>>

---------------------------------------------------------------------------
\* Python values

None == [t |-> "none"]
F(v) == [t |-> "float", v |-> v]
NegZero == [t |-> "float", v |-> 0, neg |-> TRUE]
D(neg, m, e) == [t |-> "double", neg |-> neg, m |-> m, e |-> e]
I(n) == [t |-> "int", v |-> n]
S(s) == [t |-> "str", s |-> s]

Unit == 1000 * 1000

Pending == [t |-> "pending"]

Abs(n) == IF n < 0 THEN -n ELSE n

\* Body applied to the value of an expression, which is evaluated once.
With(value, Body(_)) == CHOOSE r \in { Body(v) : v \in {value} } : TRUE

---------------------------------------------------------------------------
\* natural numbers of any size: sequences of limbs, lowest first, the highest
\* limb not 0

LimbBits == 14
Base == 2 ^ LimbBits

Limb(n, i) == IF i >= 1 /\ i <= Len(n) THEN n[i] ELSE 0

\* without its high zero limbs
RECURSIVE Trim(_)
Trim(n) == IF n # <<>> /\ n[Len(n)] = 0 THEN Trim(SubSeq(n, 1, Len(n) - 1)) ELSE n

\* 0 <= k < 2^31 as limbs
NatOf(k) == Trim(<<k % Base, (k \div Base) % Base, k \div (Base * Base)>>)

\* limbs as a number (below 2^31)
RECURSIVE IntOf(_)
IntOf(n) == IF n = <<>> THEN 0 ELSE n[1] + Base * IntOf(Tail(n))

RECURSIVE BitsOf(_)
BitsOf(k) == IF k = 0 THEN 0 ELSE 1 + BitsOf(k \div 2)

BitLen(n) == IF n = <<>> THEN 0 ELSE LimbBits * (Len(n) - 1) + BitsOf(n[Len(n)])

\* a + b from limb i up, c the carry into limb i
RECURSIVE AddFrom(_, _, _, _, _)
AddFrom(a, b, i, c, acc) ==
    IF i > Len(a) /\ i > Len(b)
    THEN (IF c = 0 THEN acc ELSE Append(acc, c))
    ELSE AddFrom(a, b, i + 1, (Limb(a, i) + Limb(b, i) + c) \div Base,
                 Append(acc, (Limb(a, i) + Limb(b, i) + c) % Base))

AddN(a, b) == AddFrom(a, b, 1, 0, <<>>)

\* a - b for a >= b, from limb i up, c the borrow from limb i
RECURSIVE SubFrom(_, _, _, _, _)
SubFrom(a, b, i, c, acc) ==
    IF i > Len(a) THEN Trim(acc)
    ELSE SubFrom(a, b, i + 1, IF Limb(a, i) - Limb(b, i) - c < 0 THEN 1 ELSE 0,
                 Append(acc, (Limb(a, i) - Limb(b, i) - c + Base) % Base))

SubN(a, b) == SubFrom(a, b, 1, 0, <<>>)

RECURSIVE CmpFrom(_, _, _)
CmpFrom(a, b, i) ==
    IF i = 0 THEN 0
    ELSE IF a[i] < b[i] THEN -1 ELSE IF a[i] > b[i] THEN 1 ELSE CmpFrom(a, b, i - 1)

\* -1, 0, 1 as a < b, a = b, a > b
CmpN(a, b) ==
    IF Len(a) < Len(b) THEN -1 ELSE IF Len(a) > Len(b) THEN 1 ELSE CmpFrom(a, b, Len(a))

\* the sum of a[i] * b[j] over i + j = k + 1, from i on (at most four products)
RECURSIVE Column(_, _, _, _)
Column(a, b, k, i) ==
    IF i > Len(a) THEN 0
    ELSE Limb(a, i) * Limb(b, k + 1 - i) + Column(a, b, k, i + 1)

RECURSIVE MulFrom(_, _, _, _, _)
MulFrom(a, b, k, c, acc) ==
    IF k > Len(a) + Len(b) THEN Trim(acc)
    ELSE With(Column(a, b, k, 1) + c, LAMBDA s :
             MulFrom(a, b, k + 1, s \div Base, Append(acc, s % Base)))

\* a * b, for a and b of at most four limbs
MulN(a, b) == MulFrom(a, b, 1, 0, <<>>)

\* a * 2^k
ShlN(a, k) ==
    IF a = <<>> THEN <<>>
    ELSE LET w == k \div LimbBits
             p == 2 ^ (k % LimbBits)
             q == Base \div p
         IN  Trim([ i \in 1..(Len(a) + w + 1) |->
                      IF i <= w THEN 0
                      ELSE (Limb(a, i - w) % q) * p + (Limb(a, i - w - 1) \div q) ])

\* a \div 2^k
ShrN(a, k) ==
    LET w == k \div LimbBits
        p == 2 ^ (k % LimbBits)
        q == Base \div p
    IN  IF Len(a) <= w THEN <<>>
        ELSE Trim([ i \in 1..(Len(a) - w) |->
                      (Limb(a, i + w) \div p) + (Limb(a, i + w + 1) % p) * q ])

\* bit k of a (bit 0 the lowest)
BitN(a, k) == (Limb(a, k \div LimbBits + 1) \div (2 ^ (k % LimbBits))) % 2

\* a % 2^k is not 0
LowBitsSet(a, k) ==
    \/ \E i \in 1..(k \div LimbBits) : Limb(a, i) # 0
    \/ Limb(a, k \div LimbBits + 1) % (2 ^ (k % LimbBits)) # 0

\* the number of limbs that are 0 below the lowest that is not, from limb i + 1 on
RECURSIVE LowZeroLimbs(_, _)
LowZeroLimbs(n, i) == IF n[i + 1] # 0 THEN i ELSE LowZeroLimbs(n, i + 1)

\* the number of times 2 divides k > 0
RECURSIVE LowZeroBits(_)
LowZeroBits(k) == IF k % 2 = 1 THEN 0 ELSE 1 + LowZeroBits(k \div 2)

\* the number of times 2 divides n # 0
TwosIn(n) == With(LowZeroLimbs(n, 0), LAMBDA z : LimbBits * z + LowZeroBits(n[z + 1]))

\* n \div d and n % d for 0 < d < 2^16, from limb i down: <<quotient, remainder>>
RECURSIVE ShortDiv(_, _, _, _, _)
ShortDiv(n, d, i, r, q) ==
    IF i = 0 THEN <<Trim(q), r>>
    ELSE ShortDiv(n, d, i - 1, (r * Base + n[i]) % d, <<(r * Base + n[i]) \div d>> \o q)

PairBase == Base * Base

\* k quotient bits of r / d, highest first, for r < 2 * d, both held as pairs
\* (high, low) of two limbs each: <<bits, remainder high, remainder low>>
RECURSIVE DivBits(_, _, _, _, _, _)
DivBits(rh, rl, dh, dl, q, k) ==
    IF k = 0 THEN <<q, rh, rl>>
    ELSE IF rh > dh \/ (rh = dh /\ rl >= dl)
         THEN DivBits(2 * (rh - dh - (IF rl < dl THEN 1 ELSE 0))
                          + (2 * ((rl - dl + PairBase) % PairBase)) \div PairBase,
                      (2 * ((rl - dl + PairBase) % PairBase)) % PairBase,
                      dh, dl, 2 * q + 1, k - 1)
         ELSE DivBits(2 * rh + (2 * rl) \div PairBase, (2 * rl) % PairBase,
                      dh, dl, 2 * q, k - 1)

\* k limbs of quotient bits of r / d: <<quotient, the remainder is not 0>>
RECURSIVE LongDiv(_, _, _, _, _, _)
LongDiv(rh, rl, dh, dl, q, k) ==
    IF k = 0 THEN <<Trim(q), rh # 0 \/ rl # 0>>
    ELSE With(DivBits(rh, rl, dh, dl, 0, LimbBits), LAMBDA s :
             LongDiv(s[2], s[3], dh, dl, <<s[1]>> \o q, k - 1))

---------------------------------------------------------------------------
\* float arithmetic (binary64)

MantBits == 53
QuotLimbs == 5
ShortBits == 16

DZero(neg) == D(neg, <<>>, 0)
IsZero(x) == x.m = <<>>

\* q = n \div 2^k with k > 0, rounded by what is below it (bit k - 1, the bits
\* below that and sticky): to the nearest, ties to even
RoundedShift(n, k, sticky) ==
    With(ShrN(n, k), LAMBDA q :
        IF BitN(n, k - 1) = 1 /\ (sticky \/ LowBitsSet(n, k - 1) \/ Limb(q, 1) % 2 = 1)
        THEN AddN(q, <<1>>) ELSE q)

\* (-1)^neg * n * 2^e, with more below the last bit of n when sticky, rounded
\* to the nearest float, ties to even
DRound(neg, n, e, sticky) ==
    IF n = <<>> THEN DZero(neg)
    ELSE With(BitLen(n) - MantBits, LAMBDA k :
             IF k <= 0 THEN D(neg, ShlN(n, -k), e + k)
             ELSE With(RoundedShift(n, k, sticky), LAMBDA r :
                      IF Len(r) = 4 /\ r[4] = Base \div 8 THEN D(neg, <<0, 0, 0, Base \div 16>>, e + k + 1)
                      ELSE D(neg, r, e + k)))

\* -x
DNeg(x) == D(~x.neg, x.m, x.e)

\* float(k) of an int
DInt(k) ==
    IF k = 0 THEN DZero(FALSE)
    ELSE With(MantBits - BitsOf(Abs(k)), LAMBDA up : D(k < 0, ShlN(NatOf(Abs(k)), up), -up))

\* x * y
DMul(x, y) ==
    IF IsZero(x) \/ IsZero(y) THEN DZero(x.neg # y.neg)
    ELSE DRound(x.neg # y.neg, MulN(x.m, y.m), x.e + y.e, FALSE)

\* (-1)^xneg * a + (-1)^yneg * b, times 2^e
AddAligned(xneg, a, yneg, b, e) ==
    IF xneg = yneg THEN DRound(xneg, AddN(a, b), e, FALSE)
    ELSE With(CmpN(a, b), LAMBDA c :
             IF c = 0 THEN DZero(FALSE)
             ELSE DRound(IF c > 0 THEN xneg ELSE yneg,
                         IF c > 0 THEN SubN(a, b) ELSE SubN(b, a), e, FALSE))

\* x + y
DAdd(x, y) ==
    IF IsZero(x) /\ IsZero(y) THEN DZero(x.neg /\ y.neg)
    ELSE IF IsZero(x) THEN y
    ELSE IF IsZero(y) THEN x
    ELSE With(IF x.e < y.e THEN x.e ELSE y.e, LAMBDA e :
         With(<<ShlN(x.m, x.e - e), ShlN(y.m, y.e - e)>>, LAMBDA ab :
             AddAligned(x.neg, ab[1], y.neg, ab[2], e)))

\* x - y
DSub(x, y) == DAdd(x, DNeg(y))

\* -1, 0, 1 as x < y, x = y, x > y
DCmp(x, y) ==
    IF IsZero(x) /\ IsZero(y) THEN 0
    ELSE IF IsZero(x) THEN (IF y.neg THEN 1 ELSE -1)
    ELSE IF IsZero(y) THEN (IF x.neg THEN -1 ELSE 1)
    ELSE IF x.neg # y.neg THEN (IF x.neg THEN -1 ELSE 1)
    ELSE (IF x.neg THEN -1 ELSE 1)
             * (IF x.e < y.e THEN -1 ELSE IF x.e > y.e THEN 1 ELSE CmpN(x.m, y.m))

High(m) == m[3] + Base * m[4]
Low(m) == m[1] + Base * m[2]

\* |x| / |y| before rounding, for x # 0 and y # 0: <<n, e, sticky>>, the
\* quotient being n * 2^e and more when sticky.  A divisor whose mantissa is a
\* number below 2^16 times a power of two is divided by limb by limb, any
\* other bit by bit.
Quotient(x, y) ==
    With(TwosIn(y.m), LAMBDA t :
        IF MantBits - t <= ShortBits
        THEN With(ShortDiv(<<0, 0>> \o x.m, IntOf(ShrN(y.m, t)), Len(x.m) + 2, 0, <<>>), LAMBDA qr :
                 <<qr[1], x.e - y.e - t - 2 * LimbBits, qr[2] # 0>>)
        ELSE With(LongDiv(High(x.m), Low(x.m), High(y.m), Low(y.m), <<>>, QuotLimbs), LAMBDA qr :
                 <<qr[1], x.e - y.e - (QuotLimbs * LimbBits - 1), qr[2]>>))

\* x / y for y # 0
DDiv(x, y) ==
    IF IsZero(x) THEN DZero(x.neg # y.neg)
    ELSE With(Quotient(x, y), LAMBDA q : DRound(x.neg # y.neg, q[1], q[2], q[3]))

\* the float written v / 10^6 in decimal
DDec(v) == DDiv(DInt(v), DInt(Unit))

\* float(x) of a float in either notation
ToD(x) ==
    IF x.t = "double" THEN x ELSE IF x = NegZero THEN DZero(TRUE) ELSE DDec(x.v)

\* |x| * scale rounded to a whole number, ties to even (scale at most 2^31)
RoundScaled(x, scale) ==
    IF IsZero(x) THEN 0
    ELSE With(MulN(x.m, NatOf(scale)), LAMBDA n :
             IF x.e >= 0 THEN IntOf(ShlN(n, x.e))
             ELSE IntOf(RoundedShift(n, -x.e, FALSE)))

\* max(a, b) and min(a, b) of Python: the first argument unless the second
\* is greater (max), is less (min)
DMax(a, b) == IF DCmp(b, a) > 0 THEN b ELSE a
DMin(a, b) == IF DCmp(b, a) < 0 THEN b ELSE a

---------------------------------------------------------------------------
\* math helpers

\* 100.0
OddsBase == DInt(100)

\* american_to_prob with the favourite's formula on both sides of zero
american_to_prob_one_branch(odds) ==
    IF odds = None THEN None
    ELSE With(ToD(odds), LAMBDA o :
             DDiv(D(FALSE, o.m, o.e), DAdd(D(FALSE, o.m, o.e), OddsBase)))

american_to_prob(odds) ==
    IF odds = None THEN None
    ELSE With(ToD(odds), LAMBDA o :
             IF DCmp(o, DZero(FALSE)) < 0
             THEN DDiv(DNeg(o), DAdd(DNeg(o), OddsBase))
             ELSE DDiv(OddsBase, DAdd(o, OddsBase)))

\* normal_cdf(x) = 0.5 * (1 + erf(x / sqrt(2))) at the arguments the bounded
\* inputs of this module produce, each with the float the function returns.
\* An argument outside the table is an evaluation error, never a silent default.
NormalCdfTable ==
    (D(TRUE, <<4469, 7447, 1489, 1117>>, -53) :> D(FALSE, <<4782, 475, 16106, 1198>>, -54)) @@
    (D(TRUE, <<4369, 1092, 4369, 1092>>, -53) :> D(FALSE, <<3937, 9725, 1773, 1216>>, -54)) @@
    (D(TRUE, <<11916, 8936, 14894, 1954>>, -54) :> D(FALSE, <<6374, 3496, 11926, 1296>>, -54)) @@
    (D(TRUE, <<4469, 7447, 1489, 1117>>, -56) :> D(FALSE, <<12612, 4664, 11019, 1936>>, -54)) @@
    (D(TRUE, <<4369, 1092, 4369, 1092>>, -56) :> D(FALSE, <<9418, 11004, 2339, 1939>>, -54)) @@
    (DZero(FALSE) :> D(FALSE, <<0, 0, 0, 1024>>, -53)) @@
    (D(FALSE, <<4469, 7447, 1489, 1117>>, -53) :> D(FALSE, <<5801, 16146, 8330, 1448>>, -53))

normal_cdf(x) == NormalCdfTable[x]

\* 3.0, 6.0 and 7.5
SigmaMin == DInt(3)
SigmaDivisor == DInt(6)
SigmaFallback == DDec(7500000)

\* max(3.0, (float(total) / 6.0) if total not in (None, 0) else 7.5)
Sigma(total) ==
    DMax(SigmaMin,
         IF total # None /\ ~IsZero(ToD(total)) THEN DDiv(ToD(total), SigmaDivisor)
         ELSE SigmaFallback)

\* P(home wins): 1.0 - normal_cdf((0.0 - mu) / sigma)
model_win_prob(proj_home, proj_away, total) ==
    With(DSub(ToD(proj_home), ToD(proj_away)), LAMBDA mu :
        DSub(DInt(1), normal_cdf(DDiv(DSub(DZero(FALSE), mu), Sigma(total)))))

\* P(home - away > -spread_home): 1.0 - normal_cdf((thresh - mu) / sigma)
model_home_cover_prob(proj_home, proj_away, spread_home, total) ==
    With(<<DSub(ToD(proj_home), ToD(proj_away)), DNeg(ToD(spread_home))>>, LAMBDA t :
        DSub(DInt(1), normal_cdf(DDiv(DSub(t[2], t[1]), Sigma(total)))))

---------------------------------------------------------------------------
\* small extractors over input lists

\* the position of the first item of (market, option) from position i on,
\* 0 when there is none
RECURSIVE FirstIndex(_, _, _, _)
FirstIndex(items, market, option, i) ==
    IF i > Len(items) THEN 0
    ELSE IF items[i].market = market /\ items[i].option = option THEN i
    ELSE FirstIndex(items, market, option, i + 1)

\* the first line item of (market, option), None when there is none
_find_line(lines, market, option) ==
    LET i == FirstIndex(lines, market, option, 1)
    IN  IF i = 0 THEN None ELSE lines[i]

\* An int too large for a float (10^400 and above): the model holds it as
\* Huge; a sum with a Huge term is Huge (every other count is small).
Huge == [t |-> "int", big |-> TRUE]

IntAdd(x, y) == IF x = Huge \/ y = Huge THEN Huge ELSE I(x.v + y.v)

\* sum(int(e.count) for e in experts[i..] if e is of (market, option))
RECURSIVE SumCounts(_, _, _, _)
SumCounts(experts, market, option, i) ==
    IF i > Len(experts) THEN I(0)
    ELSE IF experts[i].market = market /\ experts[i].option = option
    THEN With(SumCounts(experts, market, option, i + 1),
              LAMBDA rest : IntAdd(experts[i].count, rest))
    ELSE SumCounts(experts, market, option, i + 1)

_sum_experts(experts, market, option) == SumCounts(experts, market, option, 1)

\* _split_pct skipping the items whose field is None
_split_pct_first_present(splits, market, option, which) ==
    LET Present(sp) == sp[which] # None
        kept == SelectSeq(splits, Present)
        i == FirstIndex(kept, market, option, 1)
    IN  IF i = 0 THEN None ELSE kept[i][which]

\* first split of (market, option): its field `which`, None when there is none
_split_pct(splits, market, option, which) ==
    LET i == FirstIndex(splits, market, option, 1)
    IN  IF i = 0 THEN None ELSE splits[i][which]

\* i.impact_0to1 or 0.0
ImpactOrZero(x) == IF x = None \/ IsZero(ToD(x)) THEN DZero(FALSE) ELSE ToD(x)

\* sum(...) from item i on, total the sum so far: the int 0 before the first
\* item of the team, a float after it
RECURSIVE SumImpact(_, _, _, _)
SumImpact(injuries, team, i, total) ==
    IF i > Len(injuries) THEN total
    ELSE IF injuries[i].team # team THEN SumImpact(injuries, team, i + 1, total)
    ELSE With(IF total = I(0) THEN ImpactOrZero(injuries[i].impact_0to1)
              ELSE DAdd(total, ImpactOrZero(injuries[i].impact_0to1)),
              LAMBDA s : SumImpact(injuries, team, i + 1, s))

\* float(sum((i.impact_0to1 or 0.0) for i in injuries if i.team == team))
_injury_sum(injuries, team) ==
    With(SumImpact(injuries, team, 1, I(0)), LAMBDA s : IF s = I(0) THEN DZero(FALSE) ELSE s)

---------------------------------------------------------------------------
\* scoring

\* the floats -0.15 and 0.15, the weights 35.0, 15.0, 15.0 and 10.0, and 100.0
ClampLo == DDec(-150000)
ClampHi == DDec(150000)
EdgeWeight == DInt(35)
ExpertWeight == DInt(15)
SharpWeight == DInt(15)
SharpScale == DInt(100)
InjuryWeight == DInt(10)

\* round(score, 3): thousandths
RoundStep == 1000

\* _clamp without the upper limit
_clamp_no_upper(v, a, b) ==
    IF v = None THEN DZero(FALSE) ELSE DMax(a, ToD(v))

\* 0.0 for None, else max(a, min(b, v))
_clamp(v, a, b) ==
    IF v = None THEN DZero(FALSE) ELSE DMax(a, DMin(b, ToD(v)))

\* round(x, 3) of a float: the multiple of 0.001 nearest to the exact value
\* of x, the even one of two that are equally near, with the sign of x
Round3(x) ==
    With(RoundScaled(x, RoundStep), LAMBDA k :
        IF k = 0 THEN (IF x.neg THEN NegZero ELSE F(0))
        ELSE F((IF x.neg THEN -k ELSE k) * (Unit \div RoundStep)))

\* float(round(float(x), 3)); None stays None
_round(x) == IF x = None THEN None ELSE Round3(ToD(x))

OverflowError == [t |-> "raise", exc |-> "int too large to convert to float"]

IsRaise(x) == x.t = "raise"

\* 35.0 * (_clamp(edge, -0.15, 0.15) / 0.15)
EdgeTerm(edge) ==
    DMul(EdgeWeight, DDiv(_clamp(edge, ClampLo, ClampHi), ClampHi))

\* sharp_delta_home or 0.0
DeltaOrZero(x) == IF x = None \/ IsZero(ToD(x)) THEN DZero(FALSE) ELSE ToD(x)

\* 15.0 * ((sharp_delta_home or 0.0) / 100.0)
SharpTerm(sharp_delta_home) ==
    DMul(SharpWeight, DDiv(DeltaOrZero(sharp_delta_home), SharpScale))

\* the experts term with one more than the sum as denominator
ExpertsTermSmoothed(experts_home, experts_away) ==
    LET sum == experts_home.v + experts_away.v
    IN  DDiv(DInt(experts_home.v - experts_away.v), IF sum > 0 THEN DInt(sum + 1) ELSE DInt(1))

\* (experts_home - experts_away) / denom with
\* denom = float(experts_home + experts_away) if the sum is > 0 else 1.0
ExpertsTerm(experts_home, experts_away) ==
    LET sum == experts_home.v + experts_away.v
    IN  DDiv(DInt(experts_home.v - experts_away.v), IF sum > 0 THEN DInt(sum) ELSE DInt(1))

\* 10.0 * (-inj_home_total + inj_away_total)
InjuryTerm(inj_home_total, inj_away_total) ==
    DMul(InjuryWeight, DAdd(DNeg(ToD(inj_home_total)), ToD(inj_away_total)))

\* the four terms added from the left
ScoreSum(edge_term, experts_term, sharp_term, injury_term) ==
    DAdd(DAdd(DAdd(edge_term, DMul(ExpertWeight, experts_term)), sharp_term), injury_term)

compute_betscore_ml(edge_home_ml, experts_home, experts_away, sharp_delta_home, inj_home_total, inj_away_total) ==
    IF IntAdd(experts_home, experts_away) = Huge THEN OverflowError
    ELSE Round3(ScoreSum(EdgeTerm(edge_home_ml), ExpertsTerm(experts_home, experts_away),
                         SharpTerm(sharp_delta_home), InjuryTerm(inj_home_total, inj_away_total)))

compute_betscore_ats(edge_home_cover, experts_home, experts_away, sharp_delta_home, inj_home_total, inj_away_total) ==
    IF IntAdd(experts_home, experts_away) = Huge THEN OverflowError
    ELSE Round3(ScoreSum(EdgeTerm(edge_home_cover), ExpertsTerm(experts_home, experts_away),
                         SharpTerm(sharp_delta_home), InjuryTerm(inj_home_total, inj_away_total)))

---------------------------------------------------------------------------
\* main analysis

\* float(proj.<name>) if proj and proj.<name> is not None else None
ProjField(proj, name) == IF proj # None /\ proj[name] # None THEN proj[name] ELSE None

\* li.<name> if li else None
LineField(li, name) == IF li # None THEN li[name] ELSE None

\* x - y with an unknown operand taken as 0.0
MinusOrZero(x, y) ==
    DSub(IF x # None THEN ToD(x) ELSE DZero(FALSE), IF y # None THEN ToD(y) ELSE DZero(FALSE))

\* x - y if both are known, else None
Minus(x, y) == IF x # None /\ y # None THEN DSub(ToD(x), ToD(y)) ELSE None

\* The values analyze_games computes for one game, in the order of the code:
\* what it reads from the game, ...
Extracted(g) ==
    LET li_ml_home == _find_line(g.market_lines, "moneyline", "home")
        li_sp_home == _find_line(g.market_lines, "spread", "home")
    IN  [ proj_home_pts |-> ProjField(g.projection, "proj_home_pts"),
          proj_away_pts |-> ProjField(g.projection, "proj_away_pts"),
          proj_total    |-> ProjField(g.projection, "proj_total"),
          ml_home_odds  |-> LineField(li_ml_home, "current_line"),
          spread_home   |-> LineField(li_sp_home, "current_line"),
          spread_home_price |-> LineField(li_sp_home, "current_price"),
          pub_home_ml |-> _split_pct(g.splits, "moneyline", "home", "public_pct"),
          mon_home_ml |-> _split_pct(g.splits, "moneyline", "home", "money_pct"),
          pub_home_sp |-> _split_pct(g.splits, "spread", "home", "public_pct"),
          mon_home_sp |-> _split_pct(g.splits, "spread", "home", "money_pct"),
          experts_ml_home |-> _sum_experts(g.experts, "moneyline", "home"),
          experts_ml_away |-> _sum_experts(g.experts, "moneyline", "away"),
          experts_sp_home |-> _sum_experts(g.experts, "spread", "home"),
          experts_sp_away |-> _sum_experts(g.experts, "spread", "away"),
          inj_home_total |-> _injury_sum(g.injuries, g.home_team),
          inj_away_total |-> _injury_sum(g.injuries, g.away_team) ]

\* ... the implied and the model probabilities, ...
Probabilities(x) ==
    [ imp_home_ml |-> american_to_prob(x.ml_home_odds),
      imp_home_cover |-> IF x.spread_home_price # None
                         THEN american_to_prob(x.spread_home_price) ELSE None,
      model_home_win |->
          IF x.proj_home_pts # None /\ x.proj_away_pts # None
          THEN model_win_prob(x.proj_home_pts, x.proj_away_pts, x.proj_total)
          ELSE None,
      model_home_cover |->
          IF x.proj_home_pts # None /\ x.proj_away_pts # None /\ x.spread_home # None
          THEN model_home_cover_prob(x.proj_home_pts, x.proj_away_pts, x.spread_home,
                                     x.proj_total)
          ELSE None ]

\* ... the edges and the sharp-money deltas, ...
Edges(x, p) ==
    [ edge_home_ml    |-> Minus(p.model_home_win, p.imp_home_ml),
      edge_home_cover |-> Minus(p.model_home_cover, p.imp_home_cover),
      sharp_delta_ml_home |-> Minus(x.mon_home_ml, x.pub_home_ml),
      sharp_delta_sp_home |-> Minus(x.mon_home_sp, x.pub_home_sp) ]

\* ... and the two scores (a score is OverflowError when computing it raises).
BetScores(x, e) ==
    [ betscore_ml_home |->
          compute_betscore_ml(e.edge_home_ml, x.experts_ml_home, x.experts_ml_away,
                              e.sharp_delta_ml_home, x.inj_home_total, x.inj_away_total),
      betscore_ats_home |->
          compute_betscore_ats(e.edge_home_cover, x.experts_sp_home, x.experts_sp_away,
                               e.sharp_delta_sp_home, x.inj_home_total, x.inj_away_total) ]

GameLocals(g) ==
    With(Extracted(g), LAMBDA x :
    With(Probabilities(x), LAMBDA p :
    With(Edges(x, p), LAMBDA e :
        x @@ p @@ e @@ BetScores(x, e))))

\* processing the game raises (the exception leaves analyze_games)
GameRaises(g) ==
    With(GameLocals(g), LAMBDA v :
        IsRaise(v.betscore_ml_home) \/ IsRaise(v.betscore_ats_home))

MlRowOf(g, v) ==
    [ game_id |-> S(g.game_id), league |-> S(g.league), date |-> S(g.date),
      away |-> S(g.away_team), home |-> S(g.home_team),
      model_home_win_prob |-> _round(v.model_home_win),
      implied_home_ml_prob |-> _round(v.imp_home_ml),
      edge_home_ml_prob |-> _round(v.edge_home_ml),
      experts_moneyline_home |-> v.experts_ml_home,
      experts_moneyline_away |-> v.experts_ml_away,
      public_home_ml_pct |-> _round(v.pub_home_ml),
      money_home_ml_pct |-> _round(v.mon_home_ml),
      inj_home_total |-> _round(v.inj_home_total),
      inj_away_total |-> _round(v.inj_away_total),
      BetScore_ML_home |-> v.betscore_ml_home ]

AtsRowOf(g, v) ==
    [ game_id |-> S(g.game_id), league |-> S(g.league), date |-> S(g.date),
      away |-> S(g.away_team), home |-> S(g.home_team),
      spread_home |-> _round(v.spread_home),
      spread_home_price |-> _round(v.spread_home_price),
      model_home_cover |-> _round(v.model_home_cover),
      imp_home_cover |-> _round(v.imp_home_cover),
      experts_spread_home |-> v.experts_sp_home,
      experts_spread_away |-> v.experts_sp_away,
      public_home_spread_pct |-> _round(v.pub_home_sp),
      money_home_spread_pct |-> _round(v.mon_home_sp),
      inj_home_total |-> _round(v.inj_home_total),
      inj_away_total |-> _round(v.inj_away_total),
      BetScore_ATS_home |-> v.betscore_ats_home ]

MlRow(g) == With(GameLocals(g), LAMBDA v : MlRowOf(g, v))
AtsRow(g) == With(GameLocals(g), LAMBDA v : AtsRowOf(g, v))

\* r.get(key, 0.0)
SortKey(r, key) == IF key \in DOMAIN r THEN r[key].v ELSE 0

\* rows.sort(key=..., reverse=True): descending and stable.  A row is put
\* behind every row already placed whose key is at least its own.
RECURSIVE InsertDesc(_, _, _, _)
InsertDesc(sorted, r, key, i) ==
    IF i > Len(sorted) THEN Append(sorted, r)
    ELSE IF SortKey(sorted[i], key) >= SortKey(r, key) THEN InsertDesc(sorted, r, key, i + 1)
    ELSE SubSeq(sorted, 1, i - 1) \o <<r>> \o SubSeq(sorted, i, Len(sorted))

RECURSIVE SortDesc(_, _, _, _)
SortDesc(rows, key, i, acc) ==
    IF i > Len(rows) THEN acc
    ELSE With(InsertDesc(acc, rows[i], key, 1), LAMBDA placed : SortDesc(rows, key, i + 1, placed))

\* the rows of a list, last first
RECURSIVE Reversed(_, _)
Reversed(rows, i) == IF i = 0 THEN <<>> ELSE <<rows[i]>> \o Reversed(rows, i - 1)

\* a sort that does not keep ties in place: the encounter order is turned
\* round before the stable sort, as sorted(rows, key)[::-1] would
list_sort_reversed(rows, key) ==
    With(Reversed(rows, Len(rows)), LAMBDA back : SortDesc(back, key, 1, <<>>))

list_sort(rows, key) == SortDesc(rows, key, 1, <<>>)

\* the loop with the first game's values reused for every game (a value
\* computed before the loop instead of inside it)
RECURSIVE AnalyzeLoopHoisted(_, _, _, _)
AnalyzeLoopHoisted(gs, i, ml_rows, ats_rows) ==
    IF i > Len(gs)
    THEN [ raised |-> FALSE, games |-> gs,
           ml_rows |-> list_sort(ml_rows, "BetScore_ML_home"),
           ats_rows |-> list_sort(ats_rows, "BetScore_ATS_home") ]
    ELSE With(GameLocals(gs[1]), LAMBDA v :
            IF IsRaise(v.betscore_ml_home) \/ IsRaise(v.betscore_ats_home)
            THEN [ raised |-> TRUE, games |-> gs, exc |-> OverflowError.exc ]
            ELSE With(<<Append(ml_rows, MlRowOf(gs[i], v)), Append(ats_rows, AtsRowOf(gs[i], v))>>,
                      LAMBDA rows : AnalyzeLoopHoisted(gs, i + 1, rows[1], rows[2])))

\* The loop of analyze_games from game i on, with the rows appended so far,
\* then the two sorts.  A game that raises ends the call: nothing is returned.
RECURSIVE AnalyzeLoop(_, _, _, _)
AnalyzeLoop(gs, i, ml_rows, ats_rows) ==
    IF i > Len(gs)
    THEN [ raised |-> FALSE, games |-> gs,
           ml_rows |-> list_sort(ml_rows, "BetScore_ML_home"),
           ats_rows |-> list_sort(ats_rows, "BetScore_ATS_home") ]
    ELSE With(GameLocals(gs[i]), LAMBDA v :
            IF IsRaise(v.betscore_ml_home) \/ IsRaise(v.betscore_ats_home)
            THEN [ raised |-> TRUE, games |-> gs, exc |-> OverflowError.exc ]
            ELSE With(<<Append(ml_rows, MlRowOf(gs[i], v)), Append(ats_rows, AtsRowOf(gs[i], v))>>,
                      LAMBDA rows : AnalyzeLoop(gs, i + 1, rows[1], rows[2])))

analyze_games(gs) == AnalyzeLoop(gs, 1, <<>>, <<>>)


---------------------------------------------------------------------------
\* delimited text

Digit == <<"0", "1", "2", "3", "4", "5", "6", "7", "8", "9">>

RECURSIVE NatStr(_)
NatStr(n) == IF n < 10 THEN Digit[n + 1] ELSE NatStr(n \div 10) \o Digit[(n % 10) + 1]

\* the digits of f written in w places, zero padded
RECURSIVE Padded(_, _)
Padded(f, w) == IF w = 0 THEN "" ELSE Padded(f \div 10, w - 1) \o Digit[(f % 10) + 1]

\* the fraction f (in w decimal places) without its trailing zeros, one place at least
RECURSIVE FracStr(_, _)
FracStr(f, w) == IF w > 1 /\ f % 10 = 0 THEN FracStr(f \div 10, w - 1) ELSE Padded(f, w)

\* repr of a float below 0.0001, a millionths: "1e-06", "1.5e-05", "2e-05"
ExpStr(a) ==
    IF a < 10 THEN Digit[a + 1] \o "e-06"
    ELSE IF a % 10 = 0 THEN Digit[(a \div 10) + 1] \o "e-05"
    ELSE Digit[(a \div 10) + 1] \o "." \o Digit[(a % 10) + 1] \o "e-05"

\* str() of the float nearest v / 10^6: "0.6", "-3.5", "60.0", "1e-05"
FloatStr(v) ==
    (IF v < 0 THEN "-" ELSE "")
        \o (IF v # 0 /\ Abs(v) < Unit \div 10000 THEN ExpStr(Abs(v))
            ELSE NatStr(Abs(v) \div Unit) \o "." \o FracStr(Abs(v) % Unit, 6))

IntStr(n) == IF n < 0 THEN "-" \o NatStr(-n) ELSE NatStr(n)

\* the text csv writes for a value: None is the empty field.  The floats of
\* the rows are written in decimal (they are rounded); the text of a float in
\* binary notation is not modelled.
Str(val) ==
    CASE val.t = "none"  -> ""
      [] val.t = "str"   -> val.s
      [] val.t = "int"   -> IntStr(val.v)
      [] val.t = "float" -> IF val = NegZero THEN "-0.0" ELSE FloatStr(val.v)

\* the characters that make the writer quote a field: the delimiter, the
\* quote character and the characters of the line terminator
Special == {",", "\"", "\r", "\n"}

\* the text from character i on, with each quote character doubled
RECURSIVE Doubled(_, _)
Doubled(text, i) ==
    IF i > Len(text) THEN ""
    ELSE (IF SubSeq(text, i, i) = "\"" THEN "\"\"" ELSE SubSeq(text, i, i))
         \o Doubled(text, i + 1)

\* the field as the writer puts it (QUOTE_MINIMAL): in quotes when it holds a
\* special character, and the empty field of a record of one field as ""
Quoted(text, alone) ==
    IF \E i \in 1..Len(text) : SubSeq(text, i, i) \in Special
    THEN "\"" \o Doubled(text, 1) \o "\""
    ELSE IF text = "" /\ alone THEN "\"\"" ELSE text

\* the field as str() of the value, None included
CsvFieldStr(r, col) ==
    IF col \in DOMAIN r THEN (IF r[col] = None THEN "None" ELSE Str(r[col])) ELSE ""

\* DictWriter(..., extrasaction="ignore"), restval "": the row's value of the
\* column, "" when the row has no such key
CsvField(r, col) == IF col \in DOMAIN r THEN Str(r[col]) ELSE ""

RECURSIVE CsvRecord(_, _, _)
CsvRecord(r, field_order, j) ==
    IF j > Len(field_order) THEN "\r\n"
    ELSE (IF j > 1 THEN "," ELSE "")
         \o Quoted(CsvField(r, field_order[j]), Len(field_order) = 1)
         \o CsvRecord(r, field_order, j + 1)

RECURSIVE HeaderRecord(_, _)
HeaderRecord(field_order, j) ==
    IF j > Len(field_order) THEN "\r\n"
    ELSE (IF j > 1 THEN "," ELSE "")
         \o Quoted(field_order[j], Len(field_order) = 1)
         \o HeaderRecord(field_order, j + 1)

RECURSIVE WriteRows(_, _, _)
WriteRows(rows, field_order, i) ==
    IF i > Len(rows) THEN ""
    ELSE CsvRecord(rows[i], field_order, 1) \o WriteRows(rows, field_order, i + 1)

\* _rows_to_csv without the early return for no rows
_rows_to_csv_header_always(rows, field_order) ==
    HeaderRecord(field_order, 1) \o WriteRows(rows, field_order, 1)

\* called with a field order by tables_to_csv, its only caller
_rows_to_csv(rows, field_order) ==
    IF rows = <<>> THEN ""
    ELSE HeaderRecord(field_order, 1) \o WriteRows(rows, field_order, 1)

ml_cols ==
    << "game_id", "league", "date", "away", "home",
       "model_home_win_prob", "implied_home_ml_prob", "edge_home_ml_prob",
       "experts_moneyline_home", "experts_moneyline_away",
       "public_home_ml_pct", "money_home_ml_pct",
       "inj_home_total", "inj_away_total",
       "BetScore_ML_home" >>

ats_cols ==
    << "game_id", "league", "date", "away", "home",
       "spread_home", "spread_home_price",
       "model_home_cover", "imp_home_cover",
       "experts_spread_home", "experts_spread_away",
       "public_home_spread_pct", "money_home_spread_pct",
       "inj_home_total", "inj_away_total",
       "BetScore_ATS_home" >>

tables_to_csv(ml_rows, ats_rows) ==
    << _rows_to_csv(ml_rows, ml_cols), _rows_to_csv(ats_rows, ats_cols) >>


---------------------------------------------------------------------------
\* input records (src/schemas.py)

Num(n) == F(n * Unit)
Half == Unit \div 2

Projection(h, a, total) == [proj_home_pts |-> h, proj_away_pts |-> a, proj_total |-> total]
LineItem(market, option, current_line, current_price) ==
    [market |-> market, option |-> option,
     current_line |-> current_line, current_price |-> current_price]
SplitItem(market, option, public_pct, money_pct) ==
    [market |-> market, option |-> option, public_pct |-> public_pct, money_pct |-> money_pct]
ExpertItem(market, option, count) == [market |-> market, option |-> option, count |-> count]
InjuryItem(team, impact_0to1) == [team |-> team, impact_0to1 |-> impact_0to1]
GameInput(game_id, home_team, away_team, projection, market_lines, splits, experts, injuries) ==
    [game_id |-> game_id, league |-> "NFL", date |-> "2024-09-08",
     home_team |-> home_team, away_team |-> away_team, projection |-> projection,
     market_lines |-> market_lines, splits |-> splits, experts |-> experts,
     injuries |-> injuries]

\* the lower-case letter of each of the letters A to Z
LowerOf ==
    ("A" :> "a") @@ ("B" :> "b") @@ ("C" :> "c") @@ ("D" :> "d") @@ ("E" :> "e") @@
    ("F" :> "f") @@ ("G" :> "g") @@ ("H" :> "h") @@ ("I" :> "i") @@ ("J" :> "j") @@
    ("K" :> "k") @@ ("L" :> "l") @@ ("M" :> "m") @@ ("N" :> "n") @@ ("O" :> "o") @@
    ("P" :> "p") @@ ("Q" :> "q") @@ ("R" :> "r") @@ ("S" :> "s") @@ ("T" :> "t") @@
    ("U" :> "u") @@ ("V" :> "v") @@ ("W" :> "w") @@ ("X" :> "x") @@ ("Y" :> "y") @@
    ("Z" :> "z")

\* v.lower(), from character i on (the letters A to Z)
RECURSIVE LowerFrom(_, _)
LowerFrom(v, i) ==
    IF i > Len(v) THEN ""
    ELSE (IF SubSeq(v, i, i) \in DOMAIN LowerOf THEN LowerOf[SubSeq(v, i, i)]
          ELSE SubSeq(v, i, i))
         \o LowerFrom(v, i + 1)

Lower(v) == LowerFrom(v, 1)

\* the validators of LineItem and SplitItem: both texts are lower-cased, then
\* checked
MarketOptionOk(market, option) ==
    /\ Lower(market) \in {"moneyline", "spread", "total"}
    /\ Lower(market) \in {"moneyline", "spread"} => Lower(option) \in {"home", "away"}
    /\ Lower(market) = "total" => Lower(option) \in {"over", "under"}

OptFloatOk(x) == x.t \in {"none", "float"}

LineItemOk(li) ==
    MarketOptionOk(li.market, li.option) /\ OptFloatOk(li.current_line)
        /\ OptFloatOk(li.current_price)
SplitItemOk(sp) ==
    MarketOptionOk(sp.market, sp.option) /\ OptFloatOk(sp.public_pct)
        /\ OptFloatOk(sp.money_pct)
\* the validators of ExpertItem, lower-casing as well
ExpertItemOk(e) ==
    /\ Lower(e.market) \in {"moneyline", "spread"}
    /\ Lower(e.option) \in {"home", "away"}
    /\ e.count.t = "int"
InjuryItemOk(i) == OptFloatOk(i.impact_0to1)
ProjectionOk(p) ==
    p # None /\ p.proj_home_pts.t = "float" /\ p.proj_away_pts.t = "float"
        /\ OptFloatOk(p.proj_total)
GameInputOk(g) ==
    /\ ProjectionOk(g.projection)
    /\ \A i \in DOMAIN g.market_lines : LineItemOk(g.market_lines[i])
    /\ \A i \in DOMAIN g.splits : SplitItemOk(g.splits[i])
    /\ \A i \in DOMAIN g.experts : ExpertItemOk(g.experts[i])
    /\ \A i \in DOMAIN g.injuries : InjuryItemOk(g.injuries[i])
BatchGamesOk(b) == \A i \in DOMAIN b : GameInputOk(b[i])

\* the item as the model object holds it: market and option as the validators
\* return them, lower-cased
Validated(item) == [item EXCEPT !.market = Lower(@), !.option = Lower(@)]

ValidatedAll(items) == [ i \in DOMAIN items |-> Validated(items[i]) ]

\* GameInput(**g) of a game that passes the validators
GameInputOf(g) ==
    [g EXCEPT !.market_lines = ValidatedAll(@), !.splits = ValidatedAll(@),
              !.experts = ValidatedAll(@)]

\* BatchGames(**payload).games of a payload that passes the validators
BatchGames(b) == [ i \in DOMAIN b |-> GameInputOf(b[i]) ]

\* sequences over S of length 0..n
SeqUpTo(Items, n) == UNION { [1..k -> Items] : k \in 0..n }

---------------------------------------------------------------------------
\* the service: one request, handled by one of the three POST endpoints

\* The games of the requests.  Hawks-Owls is the worked example of the
\* specification; Bears-Lions scores the same from duplicated items, some of
\* them written with capital letters; Colts-Jets and Colts-Jets (late) both
\* score 0 on the moneyline, the late one more against the spread; Rams-Owls
\* ranks last on the moneyline and first against the spread; the expert count
\* of Bills-Jets is beyond a float; the line item of Jets-Owls has an option
\* that is none of its market.
GameHawks ==
    GameInput("G1", "Hawks", "Owls", Projection(Num(24), Num(20), Num(44)),
        << LineItem("moneyline", "home", Num(-150), None),
           LineItem("spread", "home", F(-3 * Unit - Half), Num(-110)) >>,
        << SplitItem("moneyline", "home", Num(60), Num(75)) >>,
        << ExpertItem("moneyline", "home", I(3)), ExpertItem("moneyline", "away", I(1)),
           ExpertItem("spread", "home", I(3)), ExpertItem("spread", "away", I(1)) >>,
        << >>)
GameBears ==
    GameInput("G2", "Bears", "Lions", Projection(Num(24), Num(20), Num(44)),
        << LineItem("Moneyline", "Home", Num(-150), None),
           LineItem("spread", "HOME", F(-3 * Unit - Half), Num(-110)),
           LineItem("moneyline", "home", Num(-300), None) >>,
        << SplitItem("MoneyLine", "home", Num(60), Num(75)) >>,
        << ExpertItem("moneyline", "home", I(1)), ExpertItem("moneyline", "away", I(1)),
           ExpertItem("Spread", "home", I(3)), ExpertItem("moneyline", "Home", I(2)),
           ExpertItem("spread", "away", I(1)) >>,
        << >>)
GameColts ==
    GameInput("G3", "Colts", "Jets", Projection(Num(20), Num(20), None),
        << >>, << >>, << >>, << >>)
GameRams ==
    GameInput("G4", "Rams", "Owls", Projection(Num(20), Num(24), Num(44)),
        << LineItem("moneyline", "home", Num(150), None),
           LineItem("spread", "home", F(7 * Unit + Half), Num(-110)),
           LineItem("moneyline", "away", Num(-170), None) >>,
        << SplitItem("spread", "home", Num(40), Num(60)) >>,
        << ExpertItem("spread", "home", I(4)) >>,
        << InjuryItem("Owls", F(Half)), InjuryItem("Rams", None) >>)
GameBills ==
    GameInput("G5", "Bills", "Jets", Projection(Num(24), Num(20), None),
        << >>, << >>, << ExpertItem("moneyline", "home", Huge) >>, << >>)
GameColtsLate ==
    GameInput("G6", "Colts", "Jets", Projection(Num(20), Num(20), Num(0)),
        << LineItem("moneyline", "home", None, None) >>,
        << SplitItem("moneyline", "home", None, Num(75)) >>,
        << ExpertItem("spread", "home", I(2)) >>, << >>)
GameJets ==
    GameInput("G7", "Jets", "Owls", Projection(Num(20), Num(20), None),
        << LineItem("moneyline", "over", None, None) >>, << >>, << >>, << >>)

GameSet == {GameHawks, GameBears, GameColts, GameRams, GameBills, GameColtsLate, GameJets}

MaxGames == 2

\* a request has arrived; nothing is validated yet
Init ==
    /\ payload \in SeqUpTo(GameSet, MaxGames)
    /\ games = <<>>
    /\ endpoint = ""
    /\ pc = "received"
    /\ response = [status |-> 0]
    /\ fn = ""
    /\ args = None
    /\ ret = Pending

\* HTTPException(status_code=422, detail=e.errors())
ValidationError == [status |-> 422, detail |-> "validation error"]

ServerError(r) == [status |-> 500, detail |-> "analysis error: " \o r.exc]

\* POST /sportsline/analyze
Analyze ==
    /\ pc = "received"
    /\ IF ~BatchGamesOk(payload) THEN games' = games /\ response' = ValidationError
       ELSE \E r \in {analyze_games(BatchGames(payload))} :
           /\ games' = r.games
           /\ response' =
                IF r.raised THEN ServerError(r)
                ELSE LET csv == tables_to_csv(r.ml_rows, r.ats_rows)
                     IN  [status |-> 200,
                          moneyline_table |-> r.ml_rows, spread_table |-> r.ats_rows,
                          csv |-> [moneyline |-> csv[1], spread |-> csv[2]]]
    /\ endpoint' = "analyze"
    /\ pc' = "responded"
    /\ UNCHANGED <<payload, fn, args, ret>>

\* POST /sportsline/analyze/csv/moneyline
AnalyzeCsvMoneyline ==
    /\ pc = "received"
    /\ IF ~BatchGamesOk(payload) THEN games' = games /\ response' = ValidationError
       ELSE \E r \in {analyze_games(BatchGames(payload))} :
           /\ games' = r.games
           /\ response' =
                IF r.raised THEN ServerError(r)
                ELSE [status |-> 200, text |-> tables_to_csv(r.ml_rows, r.ats_rows)[1]]
    /\ endpoint' = "csv_moneyline"
    /\ pc' = "responded"
    /\ UNCHANGED <<payload, fn, args, ret>>

\* POST /sportsline/analyze/csv/spread
AnalyzeCsvSpread ==
    /\ pc = "received"
    /\ IF ~BatchGamesOk(payload) THEN games' = games /\ response' = ValidationError
       ELSE \E r \in {analyze_games(BatchGames(payload))} :
           /\ games' = r.games
           /\ response' =
                IF r.raised THEN ServerError(r)
                ELSE [status |-> 200, text |-> tables_to_csv(r.ml_rows, r.ats_rows)[2]]
    /\ endpoint' = "csv_spread"
    /\ pc' = "responded"
    /\ UNCHANGED <<payload, fn, args, ret>>

Next == Analyze \/ AnalyzeCsvMoneyline \/ AnalyzeCsvSpread

Spec == Init /\ [][Next]_vars

---------------------------------------------------------------------------
\* properties of the service

Range(f) == { f[i] : i \in DOMAIN f }

Orders(n) == { p \in [1..n -> 1..n] : \A i, j \in 1..n : p[i] = p[j] => i = j }

\* the request passed validation and was handled
Handled == pc = "responded" /\ response.status # 422

Answered == pc = "responded" /\ endpoint = "analyze" /\ response.status = 200

NonIncreasing(rows, key) ==
    \A i, j \in DOMAIN rows : i < j => rows[i][key].v >= rows[j][key].v

\* rows holds row(game) of every game of the batch once, and rows of equal
\* score stand in the order of their games
StablePlacement(rows, key, batch, row(_)) ==
    /\ Len(rows) = Len(batch)
    /\ \E p \in Orders(Len(batch)) :
          /\ \A i \in DOMAIN rows : rows[i] = row(batch[p[i]])
          /\ \A i, j \in DOMAIN rows :
                (i < j /\ rows[i][key].v = rows[j][key].v) => p[i] < p[j]

\* C1: both returned tables are in non-increasing order of their own score,
\* and rows of equal score keep the order of their games in the batch.
C1_SortedStable ==
    Answered =>
        /\ NonIncreasing(response.moneyline_table, "BetScore_ML_home")
        /\ NonIncreasing(response.spread_table, "BetScore_ATS_home")
        /\ StablePlacement(response.moneyline_table, "BetScore_ML_home", games, MlRow)
        /\ StablePlacement(response.spread_table, "BetScore_ATS_home", games, AtsRow)

\* two games tied on the moneyline, kept in batch order there, and put the
\* other way round in the spread table
C1_Witness ==
    /\ Answered
    /\ payload = <<GameColts, GameColtsLate>>
    /\ response.moneyline_table[1].BetScore_ML_home = response.moneyline_table[2].BetScore_ML_home
    /\ response.moneyline_table[1].game_id = S("G3")
    /\ response.moneyline_table[2].game_id = S("G6")
    /\ response.spread_table[1].game_id = S("G6")
    /\ response.spread_table[2].game_id = S("G3")

\* C2: a game that raises does not keep the other games of its batch from
\* being analyzed and returned.
C2_FailureIsolated ==
    Handled =>
        \A i, j \in DOMAIN games :
            (GameRaises(games[j]) /\ ~GameRaises(games[i])) =>
                /\ response.status = 200
                /\ endpoint = "analyze" =>
                      /\ MlRow(games[i]) \in Range(response.moneyline_table)
                      /\ AtsRow(games[i]) \in Range(response.spread_table)

\* the row analyze_games gives for the game alone, in a batch of one
\* (the exception, where the game alone raises)
AloneMl(g) ==
    With(analyze_games(<<g>>), LAMBDA r : IF r.raised THEN OverflowError ELSE r.ml_rows[1])
AloneAts(g) ==
    With(analyze_games(<<g>>), LAMBDA r : IF r.raised THEN OverflowError ELSE r.ats_rows[1])

IsPermutationOf(rows, batch, row(_)) ==
    /\ Len(rows) = Len(batch)
    /\ \E p \in Orders(Len(batch)) : \A i \in DOMAIN rows : rows[i] = row(batch[p[i]])

\* C9: each returned table has one row per game, the row the game gets when
\* analyzed alone, and the games are left as validation made them.
C9_RowPerGame ==
    /\ Handled => games = BatchGames(payload)
    /\ Answered =>
          /\ IsPermutationOf(response.moneyline_table, BatchGames(payload), AloneMl)
          /\ IsPermutationOf(response.spread_table, BatchGames(payload), AloneAts)

\* two games answered, each first in one table
C9_Witness ==
    /\ Answered
    /\ payload = <<GameRams, GameHawks>>
    /\ games = payload
    /\ Len(response.moneyline_table) = 2
    /\ response.moneyline_table[1] = AloneMl(GameHawks)
    /\ response.spread_table[1] = AloneAts(GameRams)

---------------------------------------------------------------------------
\* the helpers called on their own: fn is the function, args its arguments,
\* ret its result (Pending until it returns)

Idle ==
    /\ payload = <<>>
    /\ games = <<>>
    /\ endpoint = ""
    /\ pc = "call"
    /\ response = [status |-> 0]

Returned(name) == fn = name /\ ret # Pending

Return(name, value) ==
    /\ fn = name
    /\ ret = Pending
    /\ ret' = value
    /\ UNCHANGED <<payload, games, endpoint, pc, response, fn, args>>

\* whole-number odds from -MaxOdds to MaxOdds, and no odds
MaxOdds == 150

OddsValues == {None} \cup { Num(o) : o \in -MaxOdds..MaxOdds }

InitOdds ==
    /\ Idle
    /\ fn = "american_to_prob"
    /\ args \in OddsValues
    /\ ret = Pending

CallAmericanToProb == Return("american_to_prob", american_to_prob(args))

NextOdds == CallAmericanToProb

SpecOdds == InitOdds /\ [][NextOdds]_vars

\* the float x in millionths, to the nearest
Millionths(x) ==
    With(ToD(x), LAMBDA d : IF d.neg THEN -RoundScaled(d, Unit) ELSE RoundScaled(d, Unit))

\* the quotient num / den (whole numbers, den > 0) to the nearest millionth
IsQuotient(q, num, den) == den > 0 /\ 2 * Abs(q * den - num * Unit) <= den

Whole(x) == x.v \div Unit

\* C10: american_to_prob gives unknown for unknown odds only; for negative
\* odds o it gives (-o) / (-o + 100), for zero or positive odds 100 / (o + 100),
\* always in (0, 1] and with a denominator that is not zero.
C10_OddsToProb ==
    Returned("american_to_prob") =>
        /\ (ret = None) <=> (args = None)
        /\ args # None =>
              /\ ret.t = "double"
              /\ DCmp(ret, DZero(FALSE)) > 0 /\ DCmp(ret, DInt(1)) <= 0
              /\ Whole(args) < 0 =>
                    /\ IsQuotient(Millionths(ret), -Whole(args), -Whole(args) + 100)
                    /\ ret = DDiv(DInt(-Whole(args)), DInt(-Whole(args) + 100))
              /\ Whole(args) >= 0 =>
                    /\ IsQuotient(Millionths(ret), 100, Whole(args) + 100)
                    /\ ret = DDiv(DInt(100), DInt(Whole(args) + 100))
        /\ args = Num(-110) => Millionths(ret) = 523810
        /\ args = Num(150) => ret = ToD(F(400000))
        /\ args = Num(-150) => ret = ToD(F(600000))

\* the odds of a standard -110 price, converted: 0.5238095238095238
C10_Witness ==
    /\ Returned("american_to_prob")
    /\ args = Num(-110)
    /\ ret = D(FALSE, <<3121, 780, 12483, 1072>>, -53)

---------------------------------------------------------------------------
\* the extractors, on lists of up to MaxItems items with duplicates

MaxItems == 2

LinePool ==
    { LineItem(m, "home", l, None) :
          m \in {"moneyline", "spread"}, l \in {None, Num(-150), Num(-110)} }
        \cup { LineItem("moneyline", "away", Num(130), None) }

SplitPool ==
    { SplitItem(m, "home", pub, mon) :
          m \in {"moneyline", "spread"}, pub \in {None, Num(60)},
          mon \in {None, Num(75), Num(40)} }

ExpertPool ==
    { ExpertItem("moneyline", "home", I(c)) : c \in {-1, 1, 2} }
        \cup { ExpertItem("moneyline", "away", I(1)), ExpertItem("spread", "home", I(3)) }

InjuryPool ==
    { InjuryItem(team, impact) :
          team \in {"Hawks", "hawks", "Owls"}, impact \in {None, F(200000), F(500000)} }

InitExtract ==
    /\ Idle
    /\ ret = Pending
    /\ \/ /\ fn = "_find_line"
          /\ args \in [ items : SeqUpTo(LinePool, MaxItems),
                        market : {"moneyline", "spread"}, option : {"home", "away"} ]
       \/ /\ fn = "_split_pct"
          /\ args \in [ items : SeqUpTo(SplitPool, MaxItems),
                        market : {"moneyline", "spread"}, option : {"home"},
                        which : {"public_pct", "money_pct"} ]
       \/ /\ fn = "_sum_experts"
          /\ args \in [ items : SeqUpTo(ExpertPool, MaxItems),
                        market : {"moneyline", "spread"}, option : {"home", "away"} ]
       \/ /\ fn = "_injury_sum"
          /\ args \in [ items : SeqUpTo(InjuryPool, MaxItems), team : {"Hawks", "Owls"} ]

CallFindLine == Return("_find_line", _find_line(args.items, args.market, args.option))
CallSplitPct ==
    Return("_split_pct", _split_pct(args.items, args.market, args.option, args.which))
CallSumExperts ==
    Return("_sum_experts", _sum_experts(args.items, args.market, args.option))
CallInjurySum == Return("_injury_sum", _injury_sum(args.items, args.team))

NextExtract == CallFindLine \/ CallSplitPct \/ CallSumExperts \/ CallInjurySum

SpecExtract == InitExtract /\ [][NextExtract]_vars

\* the positions of the items of (market, option), and of the items of a team
Matching(items, market, option) ==
    { i \in DOMAIN items : items[i].market = market /\ items[i].option = option }
OfTeam(items, team) == { i \in DOMAIN items : items[i].team = team }

Least(indices) == CHOOSE i \in indices : \A j \in indices : i <= j

RECURSIVE Total(_, _)
Total(Val(_), indices) ==
    IF indices = {} THEN 0
    ELSE Val(Least(indices)) + Total(Val, indices \ {Least(indices)})

\* C4: a line or split lookup gives the first item of (market, option), or
\* its requested field even when that is unknown, and unknown when nothing
\* matches; an expert or injury lookup gives the sum over all matching items,
\* a missing impact counting 0, and 0 when nothing matches.
C4_FirstMatchOrSum ==
    /\ Returned("_find_line") =>
          LET m == Matching(args.items, args.market, args.option)
          IN  ret = IF m = {} THEN None ELSE args.items[Least(m)]
    /\ Returned("_split_pct") =>
          LET m == Matching(args.items, args.market, args.option)
          IN  ret = IF m = {} THEN None ELSE args.items[Least(m)][args.which]
    /\ Returned("_sum_experts") =>
          LET m == Matching(args.items, args.market, args.option)
              Count(i) == args.items[i].count.v
          IN  ret = I(Total(Count, m))
    /\ Returned("_injury_sum") =>
          LET m == OfTeam(args.items, args.team)
              Impact(i) == IF args.items[i].impact_0to1 = None THEN 0
                           ELSE args.items[i].impact_0to1.v
          IN  /\ ret.t = "double"
              /\ Millionths(ret) = Total(Impact, m)
              /\ m = {} => ret = DZero(FALSE)

\* the first home moneyline split has no money percentage, a later one has:
\* the lookup gives unknown
C4_Witness ==
    /\ Returned("_split_pct")
    /\ args = [ items |-> << SplitItem("moneyline", "home", Num(60), None),
                             SplitItem("moneyline", "home", Num(60), Num(75)) >>,
                market |-> "moneyline", option |-> "home", which |-> "money_pct" ]
    /\ ret = None

---------------------------------------------------------------------------
\* the two composite scores, called on a pair of expert counts and again on
\* the pair multiplied by a positive whole number

MaxEdgeSteps == 4
MaxCount == 2
MaxScale == 2

\* edges in steps of 0.05 around the clamp range, edges whose score falls
\* next to a rounding tie, one far outside the range, and none
EdgeStep == Unit \div 20
EdgeValues ==
    {None} \cup { F(k * EdgeStep) : k \in -MaxEdgeSteps..MaxEdgeSteps }
           \cup { Num(-1000), F(-1) }

ScoreArgs ==
    [ edge : EdgeValues,
      experts_home : { I(c) : c \in -1..MaxCount },
      experts_away : { I(c) : c \in -1..MaxCount },
      scale : 1..MaxScale,
      sharp_delta_home : {None, Num(15), F(10000), F(3340)},
      inj : { <<F(0), F(0)>>, <<F(Half), F(200000)>> } ]

InitScore ==
    /\ Idle
    /\ fn \in {"compute_betscore_ml", "compute_betscore_ats"}
    /\ args \in ScoreArgs
    /\ ret = Pending

ScoreOf(name, a) ==
    IF name = "compute_betscore_ml"
    THEN compute_betscore_ml(a.edge, a.experts_home, a.experts_away, a.sharp_delta_home,
                             ToD(a.inj[1]), ToD(a.inj[2]))
    ELSE compute_betscore_ats(a.edge, a.experts_home, a.experts_away, a.sharp_delta_home,
                              ToD(a.inj[1]), ToD(a.inj[2]))

Scaled(a) ==
    [a EXCEPT !.experts_home = I(a.scale * a.experts_home.v),
              !.experts_away = I(a.scale * a.experts_away.v)]

CallComputeBetscoreMl ==
    Return("compute_betscore_ml",
           [ score |-> ScoreOf("compute_betscore_ml", args),
             scaled |-> ScoreOf("compute_betscore_ml", Scaled(args)) ])

CallComputeBetscoreAts ==
    Return("compute_betscore_ats",
           [ score |-> ScoreOf("compute_betscore_ats", args),
             scaled |-> ScoreOf("compute_betscore_ats", Scaled(args)) ])

NextScore == CallComputeBetscoreMl \/ CallComputeBetscoreAts

SpecScore == InitScore /\ [][NextScore]_vars

Scored == Returned("compute_betscore_ml") \/ Returned("compute_betscore_ats")

SameUnderScaling ==
    /\ ret.scaled = ret.score
    /\ ExpertsTerm(Scaled(args).experts_home, Scaled(args).experts_away)
           = ExpertsTerm(args.experts_home, args.experts_away)

\* C5 as stated: for every pair of integer expert counts and every positive
\* whole number k, the expert term and both scores are the same for (k*h, k*a)
\* as for (h, a).
C5_ScaleInvariantAnyCounts == Scored => SameUnderScaling

\* C5, amended: the expert term and both scores are the same for (k*h, k*a) as
\* for (h, a) when h + a > 0 or h = a, which covers all counts that are not
\* negative.
C5_ScaleInvariant ==
    (Scored /\ (args.experts_home.v + args.experts_away.v > 0
                    \/ args.experts_home = args.experts_away))
        => SameUnderScaling

\* counts (2, 1) and (4, 2), with an expert term of a third that counts
C5_Witness ==
    /\ Scored
    /\ args.experts_home = I(2) /\ args.experts_away = I(1) /\ args.scale = 2
    /\ args.edge = None /\ args.sharp_delta_home = None /\ args.inj = <<F(0), F(0)>>
    /\ ret.score = Num(5)
    /\ ret.scaled = Num(5)

DAbs(x) == D(FALSE, x.m, x.e)

\* C6: whatever the edge, clamp(edge, -0.15, 0.15) / 0.15 is in [-1, 1] and
\* the edge adds between -35 and 35 to the score; an unknown edge scores as an
\* edge of 0 and an unknown sharp-money delta as a delta of 0, in both scores.
\* (The scores are rounded to a thousandth each, so the score with the edge and
\* the score without are up to 35.001 apart.)
C6_EdgeTermBounded ==
    Scored =>
        /\ DCmp(DAbs(DDiv(_clamp(args.edge, ClampLo, ClampHi), ClampHi)),
                DInt(1)) <= 0
        /\ DCmp(DAbs(EdgeTerm(args.edge)), EdgeWeight) <= 0
        /\ Abs(ret.score.v - ScoreOf(fn, [args EXCEPT !.edge = F(0)]).v)
              <= 35 * Unit + Unit \div RoundStep
        /\ args.edge = None =>
              /\ IsZero(EdgeTerm(args.edge))
              /\ ret.score = ScoreOf(fn, [args EXCEPT !.edge = F(0)])
        /\ args.sharp_delta_home = None =>
              ret.score = ScoreOf(fn, [args EXCEPT !.sharp_delta_home = F(0)])

\* an edge of 0.2, beyond the clamp, alone in the score: 35
C6_Witness ==
    /\ Returned("compute_betscore_ats")
    /\ args.edge = F(4 * EdgeStep)
    /\ args.experts_home = I(0) /\ args.experts_away = I(0)
    /\ args.sharp_delta_home = None /\ args.inj = <<F(0), F(0)>>
    /\ ret.score = Num(35)

---------------------------------------------------------------------------
\* analyze_games on one game, over the combinations of present and absent
\* optional inputs

ProjectionChoices ==
    { Projection(Num(24), Num(20), total) : total \in {None, Num(44), Num(0)} }

MoneylineChoices ==
    { <<>> } \cup { << LineItem("moneyline", "home", l, None) >> : l \in {None, Num(-150)} }

SpreadChoices ==
    { <<>> } \cup { << LineItem("spread", "home", l, p) >> :
                        l \in {None, F(-3 * Unit - Half)}, p \in {None, Num(-110)} }

MoneylineSplitChoices ==
    { <<>> } \cup { << SplitItem("moneyline", "home", pub, mon) >> :
                        pub \in {None, Num(60)}, mon \in {None, Num(75)} }

SpreadSplitChoices ==
    { <<>>, << SplitItem("spread", "home", Num(55), None) >>,
      << SplitItem("spread", "home", Num(55), Num(40)) >> }

InjuryChoices ==
    { <<>> } \cup { << InjuryItem("Hawks", impact) >> : impact \in {None, F(Half)} }

FourExperts ==
    << ExpertItem("moneyline", "home", I(3)), ExpertItem("moneyline", "away", I(1)),
       ExpertItem("spread", "home", I(3)), ExpertItem("spread", "away", I(1)) >>

GameChoices ==
    { GameInput("G1", "Hawks", "Owls", p, ml \o sp, s1 \o s2, FourExperts, inj) :
          p \in ProjectionChoices, ml \in MoneylineChoices, sp \in SpreadChoices,
          s1 \in MoneylineSplitChoices, s2 \in SpreadSplitChoices, inj \in InjuryChoices }

InitGame ==
    /\ Idle
    /\ fn = "analyze_games"
    /\ args \in { g \in GameChoices : GameInputOk(g) }
    /\ ret = Pending

\* the result of analyze_games([g]) and the values of its locals for g
CallAnalyzeGames ==
    \E r \in {analyze_games(<<args>>)} :
        Return("analyze_games",
               IF r.raised THEN r ELSE r @@ [locals |-> GameLocals(args)])

NextGame == CallAnalyzeGames

SpecGame == InitGame /\ [][NextGame]_vars

Unknown(x) == x = None

\* the row fields that hold a rounded local of the game
MlFieldOf ==
    [ model_home_win_prob |-> "model_home_win", implied_home_ml_prob |-> "imp_home_ml",
      edge_home_ml_prob |-> "edge_home_ml", public_home_ml_pct |-> "pub_home_ml",
      money_home_ml_pct |-> "mon_home_ml" ]
AtsFieldOf ==
    [ spread_home |-> "spread_home", spread_home_price |-> "spread_home_price",
      model_home_cover |-> "model_home_cover", imp_home_cover |-> "imp_home_cover",
      public_home_spread_pct |-> "pub_home_sp", money_home_spread_pct |-> "mon_home_sp" ]

\* unknown in the row exactly when the local is unknown, else a number
ShownAsIs(row, local_of, v) ==
    \A f \in DOMAIN local_of :
        /\ Unknown(row[f]) <=> Unknown(v[local_of[f]])
        /\ ~Unknown(row[f]) => row[f].t = "float"

\* z is x - y to the millionth
IsDifference(z, x, y) == Abs(Millionths(z) - (Millionths(x) - Millionths(y))) <= 1

\* C3: with any combination of present and absent optional inputs the
\* analysis returns, an edge is unknown exactly when its model probability or
\* its implied probability is, a sharp-money delta exactly when the money or
\* the public percentage of the home side is, and what is unknown is unknown
\* in the row, not 0.
C3_UnknownPropagates ==
    Returned("analyze_games") =>
        /\ ~ret.raised
        /\ Len(ret.ml_rows) = 1 /\ Len(ret.ats_rows) = 1
        /\ LET v == ret.locals
           IN  /\ Unknown(v.edge_home_ml)
                      <=> (Unknown(v.model_home_win) \/ Unknown(v.imp_home_ml))
               /\ Unknown(v.edge_home_cover)
                      <=> (Unknown(v.model_home_cover) \/ Unknown(v.imp_home_cover))
               /\ Unknown(v.sharp_delta_ml_home)
                      <=> (Unknown(v.mon_home_ml) \/ Unknown(v.pub_home_ml))
               /\ Unknown(v.sharp_delta_sp_home)
                      <=> (Unknown(v.mon_home_sp) \/ Unknown(v.pub_home_sp))
               /\ ~Unknown(v.edge_home_ml) =>
                      IsDifference(v.edge_home_ml, v.model_home_win, v.imp_home_ml)
               /\ ~Unknown(v.edge_home_cover) =>
                      IsDifference(v.edge_home_cover, v.model_home_cover, v.imp_home_cover)
               /\ ~Unknown(v.sharp_delta_ml_home) =>
                      Millionths(v.sharp_delta_ml_home) = v.mon_home_ml.v - v.pub_home_ml.v
               /\ ShownAsIs(ret.ml_rows[1], MlFieldOf, v)
               /\ ShownAsIs(ret.ats_rows[1], AtsFieldOf, v)

\* a game with nothing but its two projected scores and a moneyline item
\* without odds: analyzed, its implied probability and its edge unknown in the row
C3_Witness ==
    /\ Returned("analyze_games")
    /\ args.projection.proj_total = None
    /\ args.market_lines = << LineItem("moneyline", "home", None, None) >>
    /\ args.splits = <<>> /\ args.injuries = <<>>
    /\ ~ret.raised
    /\ ret.ml_rows[1].model_home_win_prob = F(703000)
    /\ ret.ml_rows[1].implied_home_ml_prob = None
    /\ ret.ml_rows[1].edge_home_ml_prob = None
    /\ ret.ats_rows[1].model_home_cover = None

---------------------------------------------------------------------------
\* tables_to_csv on collections of up to MaxRows rows: rows of analyzed
\* games, rows that lack columns, hold unknowns and carry a field that is no
\* column, and rows whose names hold a comma, a quote or a line break

MaxRows == 2

SparseMlRow ==
    [ game_id |-> S("G7"), home |-> S("Jets"), edge_home_ml_prob |-> None,
      public_home_ml_pct |-> F(15), BetScore_ML_home |-> F(1500000), note |-> S("late") ]

SparseAtsRow ==
    [ game_id |-> S("G7"), home |-> S("Jets"), imp_home_cover |-> None,
      BetScore_ATS_home |-> F(-2250000), note |-> S("late") ]

CommaMlRow ==
    [ MlRow(GameHawks) EXCEPT !.game_id = S("G8"), !.home = S("St. Louis, MO"),
                              !.away = S("The \"Owls\""), !.edge_home_ml_prob = NegZero ]

LineBreakAtsRow ==
    [ game_id |-> S("G9"), away |-> S("a\r\nb"), home |-> S("two\nlines"),
      BetScore_ATS_home |-> F(0) ]

MlRowPool == { MlRow(GameHawks), MlRow(GameColts), SparseMlRow, CommaMlRow }
AtsRowPool == { AtsRow(GameHawks), SparseAtsRow, LineBreakAtsRow }

InitCsv ==
    /\ Idle
    /\ fn = "tables_to_csv"
    /\ args \in [ ml_rows : SeqUpTo(MlRowPool, MaxRows), ats_rows : SeqUpTo(AtsRowPool, MaxRows) ]
    /\ ret = Pending

CallTablesToCsv == Return("tables_to_csv", tables_to_csv(args.ml_rows, args.ats_rows))

NextCsv == CallTablesToCsv

SpecCsv == InitCsv /\ [][NextCsv]_vars

MlHeaderLine ==
    "game_id,league,date,away,home,model_home_win_prob,implied_home_ml_prob,"
        \o "edge_home_ml_prob,experts_moneyline_home,experts_moneyline_away,"
        \o "public_home_ml_pct,money_home_ml_pct,inj_home_total,inj_away_total,"
        \o "BetScore_ML_home\r\n"

AtsHeaderLine ==
    "game_id,league,date,away,home,spread_home,spread_home_price,model_home_cover,"
        \o "imp_home_cover,experts_spread_home,experts_spread_away,"
        \o "public_home_spread_pct,money_home_spread_pct,inj_home_total,inj_away_total,"
        \o "BetScore_ATS_home\r\n"

CharAt(text, i) == IF i <= Len(text) THEN SubSeq(text, i, i) ELSE ""

StartsWith(text, prefix) ==
    Len(text) >= Len(prefix) /\ SubSeq(text, 1, Len(prefix)) = prefix

\* the number of line ends in the text: each \r\n, and each \r or \n alone
LineEnds(text) ==
    Cardinality({ i \in 1..Len(text) :
                    \/ CharAt(text, i) = "\n"
                    \/ CharAt(text, i) = "\r" /\ CharAt(text, i + 1) # "\n" })

\* Reading delimited text back, as a CSV reader does.  A field that starts
\* with a quote runs to its closing quote, a doubled quote standing for one;
\* any other field runs to the next comma or line end.
RECURSIVE PlainEnd(_, _)
PlainEnd(text, i) ==
    IF i > Len(text) \/ CharAt(text, i) \in {",", "\r", "\n"} THEN i
    ELSE PlainEnd(text, i + 1)

RECURSIVE ReadQuoted(_, _, _)
ReadQuoted(text, i, field) ==
    IF i > Len(text) THEN <<field, i>>
    ELSE IF CharAt(text, i) # "\"" THEN ReadQuoted(text, i + 1, field \o CharAt(text, i))
    ELSE IF CharAt(text, i + 1) = "\"" THEN ReadQuoted(text, i + 2, field \o "\"")
    ELSE <<field, i + 1>>

\* the field that starts at character i, and the position after it
ReadField(text, i) ==
    IF CharAt(text, i) = "\"" THEN ReadQuoted(text, i + 1, "")
    ELSE With(PlainEnd(text, i), LAMBDA j : <<SubSeq(text, i, j - 1), j>>)

\* the fields of the record that starts at character i, and the position after them
RECURSIVE ReadRecord(_, _, _)
ReadRecord(text, i, fields) ==
    With(ReadField(text, i), LAMBDA f :
        IF CharAt(text, f[2]) = "," THEN ReadRecord(text, f[2] + 1, Append(fields, f[1]))
        ELSE <<Append(fields, f[1]), f[2]>>)

\* the records of the text from character i on, each ended by \r\n
RECURSIVE ReadRecords(_, _, _)
ReadRecords(text, i, records) ==
    IF i > Len(text) THEN records
    ELSE With(ReadRecord(text, i, <<>>), LAMBDA r :
             IF CharAt(text, r[2]) = "\r" /\ CharAt(text, r[2] + 1) = "\n"
             THEN ReadRecords(text, r[2] + 2, Append(records, r[1]))
             ELSE Append(records, <<"not a record">>))

Records(text) == ReadRecords(text, 1, <<>>)

\* the line ends inside the values of the row that are written to a column
RECURSIVE LineEndsInRow(_, _, _)
LineEndsInRow(r, cols, j) ==
    IF j > Len(cols) THEN 0
    ELSE (IF cols[j] \in DOMAIN r THEN LineEnds(Str(r[cols[j]])) ELSE 0)
         + LineEndsInRow(r, cols, j + 1)

RECURSIVE LineEndsInRows(_, _, _)
LineEndsInRows(rows, cols, i) ==
    IF i > Len(rows) THEN 0
    ELSE LineEndsInRow(rows[i], cols, 1) + LineEndsInRows(rows, cols, i + 1)

\* the text is empty for no rows, and else the header line and then one line
\* per row
LinePerRow(text, rows, header) ==
    IF rows = <<>> THEN text = ""
    ELSE StartsWith(text, header) /\ LineEnds(text) = 1 + Len(rows)

\* C7 as stated: an empty collection renders as the empty text, without a
\* header, in both tables; any other renders as the header line of the fixed
\* column names and then exactly one line per row.
C7_LinePerRow ==
    Returned("tables_to_csv") =>
        /\ LinePerRow(ret[1], args.ml_rows, MlHeaderLine)
        /\ LinePerRow(ret[2], args.ats_rows, AtsHeaderLine)

\* the text is empty for no rows, and else the header line and then one
\* record per row, in the order of the rows, on one line each and one more
\* line for every line end inside a written value
RecordPerRow(text, rows, header, cols) ==
    IF rows = <<>> THEN text = ""
    ELSE /\ StartsWith(text, header)
         /\ With(Records(text), LAMBDA recs :
                /\ Len(recs) = 1 + Len(rows)
                /\ recs[1] = cols
                /\ \A i \in DOMAIN rows :
                      /\ Len(recs[i + 1]) = Len(cols)
                      /\ recs[i + 1][1] = Str(rows[i].game_id))
         /\ LineEnds(text) = 1 + Len(rows) + LineEndsInRows(rows, cols, 1)

\* C7, amended: an empty collection renders as the empty text, without a
\* header, in both tables; any other renders as the header line of the fixed
\* column names and then exactly one record per row, in the order of the
\* collection; a record is one line unless a value written to it holds a line
\* break, which adds a line.
C7_EmptyOrHeaderAndRecords ==
    Returned("tables_to_csv") =>
        /\ RecordPerRow(ret[1], args.ml_rows, MlHeaderLine, ml_cols)
        /\ RecordPerRow(ret[2], args.ats_rows, AtsHeaderLine, ats_cols)

\* no moneyline rows and two spread rows, the first with two line breaks in
\* its names
C7_Witness ==
    /\ Returned("tables_to_csv")
    /\ args.ml_rows = <<>>
    /\ args.ats_rows = << LineBreakAtsRow, AtsRow(GameHawks) >>
    /\ ret[1] = ""
    /\ ret[2] = AtsHeaderLine \o "G9,,,\"a\r\nb\",\"two\nlines\",,,,,,,,,,,0.0\r\n"
                  \o "G1,NFL,2024-09-08,Owls,Hawks,-3.5,-110.0,0.527,0.524,3,1,,,0.0,0.0,8.286\r\n"
    /\ LineEnds(ret[2]) = 5

\* the fields of a record: per column the text of the row's value, empty for
\* an unknown value and for a column the row lacks
FieldsOf(r, cols) ==
    [ j \in 1..Len(cols) |->
          IF cols[j] \in DOMAIN r /\ r[cols[j]] # None THEN Str(r[cols[j]]) ELSE "" ]

\* the records after the header are the fields of the rows
DataRecords(text, rows, cols) ==
    With(Records(text), LAMBDA recs :
        /\ Len(recs) = 1 + Len(rows)
        /\ \A i \in DOMAIN rows : recs[i + 1] = FieldsOf(rows[i], cols))

\* C8: every data line has one field per column, in the order of the columns:
\* empty for an unknown value and for a column the row lacks; a row field
\* that is no column is not in the text.  (The fields are those a CSV reader
\* finds; the data line of a row is its record.)
C8_FieldPerColumn ==
    (Returned("tables_to_csv") /\ args.ml_rows # <<>> /\ args.ats_rows # <<>>) =>
        /\ DataRecords(ret[1], args.ml_rows, ml_cols)
        /\ DataRecords(ret[2], args.ats_rows, ats_cols)

\* one row with an unknown edge, without most columns, with a note; and one
\* with a comma and quotes in its names
C8_Witness ==
    /\ Returned("tables_to_csv")
    /\ args.ml_rows = << SparseMlRow, CommaMlRow >>
    /\ args.ats_rows = << SparseAtsRow >>
    /\ ret[1] = MlHeaderLine \o "G7,,,,Jets,,,,,,1.5e-05,,,,1.5\r\n"
                  \o "G8,NFL,2024-09-08,\"The \"\"Owls\"\"\",\"St. Louis, MO\",0.707,0.6,-0.0,3,1,60.0,75.0,0.0,0.0,34.782\r\n"
    /\ ret[2] = AtsHeaderLine \o "G7,,,,Jets,,,,,,,,,,,-2.25\r\n"

===========================================================================
